---- MODULE Spec2Model ----
(***************************************************************************)
(* AwesomeAnimator (src/awesomeanimator.py): producers push Msg tuples     *)
(* into a multiprocessing.Queue; the animator process initialises every    *)
(* Animator, then loops forever: drain the queue into Animator.update,     *)
(* draw every figure, plt.pause, time.sleep(interval).                     *)
(*                                                                         *)
(* multiprocessing.Queue is modelled by what it does: put() appends the    *)
(* object to a buffer local to the calling process and returns; a feeder   *)
(* thread of that process later writes the buffer's head into the pipe     *)
(* shared by all processes; empty() and get() look at the pipe only.       *)
(*                                                                         *)
(* Indices (animator_index, plot_index) are 0-based as in the source; the  *)
(* sequences that hold per-animator and per-plot state are 1-based, so an  *)
(* index i selects element i + 1.  Display ranges are kept in tenths       *)
(* (every bound of set_ylim multiplied by 10) so that the .1 padding is    *)
(* an integer.                                                             *)
(***************************************************************************)
EXTENDS Integers, Sequences, FiniteSets, TLC

\* ------------------------------------------------------------------ bounds
\* Largest max_history a PlotAnimator is built with.
MaxHistory == 2
\* Total number of push calls made by all producers together.
MaxPush == 3

\* Largest number of messages put and not yet got at one time, for the
\* producers that push without end.
MaxInFlight == 2

\* ------------------------------------------------------------- input sets
\* Producer processes holding the AwesomeAnimator object.
Producers == {"p1", "p2"}
\* (nrows, ncols) grids: single plot, one row, one column, full grid.
Grids == {<<1, 1>>, <<1, 2>>, <<2, 1>>, <<2, 2>>}
\* Scalar samples pushed to a PlotAnimator.
Scalars == {-1, 2}

\* A payload is a numpy value: its shape and the value that fills it.
Scalar(v) == [shape |-> <<>>, val |-> v]
Array(r, c, v) == [shape |-> <<r, c>>, val |-> v]
\* 2-D arrays pushed to an ImageAnimator.
Images == {Array(2, 2, 0), Array(2, 2, 1)}
\* np.zeros((1, 1)), the array init_animation shows in every image plot.
Zeros11 == Array(1, 1, 0)

\* np.zeros(n)
RECURSIVE npzeros(_)
npzeros(n) == IF n <= 0 THEN <<>> ELSE Append(npzeros(n - 1), 0)

\* The names of a cmaps list for n plots.
RECURSIVE CmapNames(_)
CmapNames(n) == IF n <= 0 THEN <<>> ELSE Append(CmapNames(n - 1), "RdBu")

\* ------------------------------------------------------------ constructors
PlotAnimator(nrows, ncols, max_history) ==
    [kind |-> "plot", nrows |-> nrows, ncols |-> ncols,
     max_history |-> max_history, cmaps |-> [isNone |-> TRUE, list |-> <<>>]]

ImageAnimator(nrows, ncols, cmaps) ==
    [kind |-> "image", nrows |-> nrows, ncols |-> ncols,
     max_history |-> 0, cmaps |-> cmaps]

NoCmaps == [isNone |-> TRUE, list |-> <<>>]
Cmaps(n) == [isNone |-> FALSE, list |-> CmapNames(n)]

\* An image animator and a plot animator, as in the module's __main__ block,
\* one plot each, the plot with the largest history.
MainAnimators == {<<ImageAnimator(1, 1, Cmaps(1)), PlotAnimator(1, 1, MaxHistory)>>}

\* An image animator of one row of two plots and a plot animator of one
\* column of two plots with the largest history.
GridAnimators == {<<ImageAnimator(1, 2, NoCmaps), PlotAnimator(2, 1, MaxHistory)>>}

\* One plot animator of one plot, for every history length from 1.
StreamAnimators == {<<PlotAnimator(1, 1, h)>> : h \in 1..MaxHistory}

\* Every single animator: a plot animator over the grids and, with one plot,
\* over the histories from 0; an image animator over the grids and the cmaps
\* choices.
AllAnimators ==
    {PlotAnimator(g[1], g[2], 1) : g \in Grids}
    \cup {PlotAnimator(1, 1, h) : h \in 0..MaxHistory}
    \cup {ImageAnimator(g[1], g[2], NoCmaps) : g \in Grids}
    \cup {ImageAnimator(g[1], g[2], Cmaps(g[1] * g[2])) : g \in Grids}

VARIABLES
    animators,  \* self.animators: the constructor arguments of each Animator
    pc,         \* position of the animator process in run()
    ai,         \* index of the for loops over self.animators in run()
    buffer,     \* per producer process: objects put() but not yet fed to the pipe
    pipe,       \* the queue's pipe: what empty() and get() see
    pushed,     \* history: the messages of the push calls, in completion order
    applied,    \* history: the messages dispatched to Animator.update, in order
    surf,       \* per animator: the state init_animation and update maintain
    drainStart  \* history: Len(pushed) when the current cycle's drain began

vars == <<animators, pc, ai, buffer, pipe, pushed, applied, surf, drainStart>>

NumAnimators == Len(animators)
NumPlots(a) == a.nrows * a.ncols

\* State of an Animator object before init_animation has run.
NoSurface ==
    [inited |-> 0, axes |-> [ndim |-> 0, len |-> 0], lines |-> 0,
     data |-> <<>>, ylim |-> <<>>, images |-> <<>>]

Msg(animator_index, plot_index, data) ==
    [animator_index |-> animator_index, plot_index |-> plot_index, data |-> data]

\* The payloads an animator's update expects: scalars or 2-D arrays.
Payloads(a) == IF a.kind = "plot" THEN {Scalar(v) : v \in Scalars} ELSE Images

\* The messages whose indices are in range for the animators (the contract
\* of push) and whose payload suits the animator addressed.
ValidMsgs ==
    UNION {{Msg(n - 1, i, d) : i \in 0..(NumPlots(animators[n]) - 1),
                               d \in Payloads(animators[n])} : n \in 1..NumAnimators}

\* ---------------------------------------------------------- numpy helpers
Abs(x) == IF x < 0 THEN -x ELSE x

RECURSIVE npmin(_)
npmin(s) == IF Len(s) = 1 THEN s[1]
            ELSE LET m == npmin(Tail(s)) IN IF s[1] < m THEN s[1] ELSE m

RECURSIVE npmax(_)
npmax(s) == IF Len(s) = 1 THEN s[1]
            ELSE LET m == npmax(Tail(s)) IN IF s[1] > m THEN s[1] ELSE m

\* The buffer left where it is: update without its np.roll.
NoRoll(s) == s

\* np.roll(s, -1): every element moves one place towards the front and the
\* first element wraps around to the end.
Roll(s) == IF s = <<>> THEN <<>> ELSE Append(Tail(s), Head(s))

\* The ylim of line 58 with the padding on the wrong side of each bound.
YLimInward(s) ==
    LET minimum == npmin(s)
        maximum == npmax(s)
        vertlen == maximum - minimum
    IN  <<10 * minimum + Abs(vertlen), 10 * maximum - Abs(vertlen)>>

\* The arguments of set_ylim for buffer s, in tenths:
\* (minimum - .1*abs(vertlen), maximum + .1*abs(vertlen)).
YLim(s) ==
    LET minimum == npmin(s)
        maximum == npmax(s)
        vertlen == maximum - minimum
    IN  <<10 * minimum - Abs(vertlen), 10 * maximum + Abs(vertlen)>>

\* ------------------------------------------------------------ matplotlib
\* plt.subplots(nrows, ncols)[1]: one Axes object (ndim 0), a 1-D array of
\* Axes when exactly one of nrows, ncols is 1, a 2-D array otherwise.
Subplots(nrows, ncols) ==
    IF nrows = 1 /\ ncols = 1 THEN [ndim |-> 0, len |-> 1]
    ELSE IF nrows = 1 \/ ncols = 1 THEN [ndim |-> 1, len |-> nrows * ncols]
    ELSE [ndim |-> 2, len |-> nrows]

\* The normalisation without its elif branch: a single Axes is not wrapped.
FlattenNoWrap(nrows, ncols) ==
    IF nrows # 1 /\ ncols # 1 THEN [ndim |-> 1, len |-> nrows * ncols]
    ELSE Subplots(nrows, ncols)

\* self.axes after the normalisation of init_animation: a 2-D array is
\* flattened row by row, a single Axes is wrapped in a list, a 1-D array is
\* kept as it is.
Flatten(nrows, ncols) ==
    IF nrows # 1 /\ ncols # 1 THEN [ndim |-> 1, len |-> nrows * ncols]
    ELSE IF nrows = 1 /\ ncols = 1 THEN [ndim |-> 1, len |-> 1]
    ELSE Subplots(nrows, ncols)

\* axes[i] is an Axes object: axes is a flat sequence and i is inside it.
IsAxes(axes, i) == axes.ndim = 1 /\ 0 <= i /\ i < axes.len

\* A sequence of n copies of x.
RECURSIVE Repeat(_, _)
Repeat(x, n) == IF n <= 0 THEN <<>> ELSE Append(Repeat(x, n - 1), x)

\* ------------------------------------------------------- Animator methods
\* Every method yields [ok, s]: s is the Animator's state after the call and
\* ok is FALSE when the call raises.

\* PlotAnimator.init_animation: the axes, one line per plot drawn over
\* np.zeros(max_history), and one zero buffer per plot.  The y range of a
\* plot is matplotlib's own until update sets it (<<>> here).
PlotInit(a, s) ==
    LET axes == Flatten(a.nrows, a.ncols)
        n == a.nrows * a.ncols
    IN  [ok |-> \A i \in 0..(n - 1) : IsAxes(axes, i),
         s  |-> [s EXCEPT !.inited = @ + 1,
                          !.axes = axes,
                          !.lines = n,
                          !.data = Repeat(npzeros(a.max_history), n),
                          !.ylim = Repeat(<<>>, n)]]

\* ImageAnimator.init_animation: the axes, and np.zeros((1, 1)) shown in
\* every axis (with cmaps: in every axis zip pairs with a cmap).
ImageInit(a, s) ==
    LET axes == Flatten(a.nrows, a.ncols)
        n == a.nrows * a.ncols
        shown == IF a.cmaps.isNone THEN axes.len
                 ELSE IF Len(a.cmaps.list) < axes.len THEN Len(a.cmaps.list)
                 ELSE axes.len
    IN  [ok |-> axes.ndim = 1,
         s  |-> [s EXCEPT !.inited = @ + 1,
                          !.axes = axes,
                          !.images = [j \in 1..n |->
                                        IF j <= shown THEN <<Zeros11>> ELSE <<>>]]]

init_animation(a, s) == IF a.kind = "plot" THEN PlotInit(a, s) ELSE ImageInit(a, s)

\* update taking minimum and maximum over the buffer as it was before the
\* roll together with the new value: the evicted value still counts.
PlotUpdateStaleRange(a, s, plot_index, data) ==
    LET i == plot_index + 1
        rolled == Roll(s.data[i])
        buf == [rolled EXCEPT ![Len(rolled)] = data.val]
    IN  IF ~(i \in 1..Len(s.data)) \/ rolled = <<>> THEN [ok |-> FALSE, s |-> s]
        ELSE [ok |-> TRUE,
              s  |-> [s EXCEPT !.data[i] = buf,
                               !.ylim[i] = YLim(Append(s.data[i], data.val))]]

\* update rescaling the y axis of every plot of the figure, not only of the
\* plot addressed.
PlotUpdateAllAxes(a, s, plot_index, data) ==
    LET i == plot_index + 1
        rolled == Roll(s.data[i])
        buf == [rolled EXCEPT ![Len(rolled)] = data.val]
    IN  IF ~(i \in 1..Len(s.data)) \/ rolled = <<>> THEN [ok |-> FALSE, s |-> s]
        ELSE [ok |-> TRUE,
              s  |-> [s EXCEPT !.data[i] = buf,
                               !.ylim = [j \in DOMAIN s.ylim |-> YLim(buf)]]]

\* PlotAnimator.update: roll the plot's buffer by -1, overwrite its last
\* element, hand the buffer to the line, rescale the y axis.
PlotUpdate(a, s, plot_index, data) ==
    LET i == plot_index + 1
        rolled == Roll(s.data[i])
        buf == [rolled EXCEPT ![Len(rolled)] = data.val]
    IN  IF ~(i \in 1..Len(s.data)) THEN [ok |-> FALSE, s |-> s]
        ELSE IF rolled = <<>>
             THEN [ok |-> FALSE, s |-> [s EXCEPT !.data[i] = rolled]]
        ELSE IF ~(i \in 1..s.lines)
             THEN [ok |-> FALSE, s |-> [s EXCEPT !.data[i] = buf]]
        ELSE IF ~IsAxes(s.axes, plot_index)
             THEN [ok |-> FALSE, s |-> [s EXCEPT !.data[i] = buf]]
        ELSE [ok |-> TRUE,
              s  |-> [s EXCEPT !.data[i] = buf, !.ylim[i] = YLim(buf)]]

\* ImageAnimator.update: axes[plot_index].imshow(data[, cmap]).  imshow adds
\* a new image to the axis; the images the axis already holds stay in it.
ImageUpdate(a, s, plot_index, data) ==
    LET i == plot_index + 1
    IN  IF ~IsAxes(s.axes, plot_index) THEN [ok |-> FALSE, s |-> s]
        ELSE IF ~a.cmaps.isNone /\ ~(i \in 1..Len(a.cmaps.list))
             THEN [ok |-> FALSE, s |-> s]
        ELSE [ok |-> TRUE, s |-> [s EXCEPT !.images[i] = Append(@, data)]]

update(a, s, plot_index, data) ==
    IF a.kind = "plot" THEN PlotUpdate(a, s, plot_index, data)
    ELSE ImageUpdate(a, s, plot_index, data)

\* -------------------------------------------------------- queue (mp.Queue)
\* mp.Queue() is built without maxsize: 0, no bound.
maxsize == 0

\* A queue built with maxsize 1: one message put and not yet got fills it.
FullAtOne == Len(pushed) - Len(applied) >= 1

\* put() waits while the queue holds maxsize objects not yet got.
Full == maxsize > 0 /\ Len(pushed) - Len(applied) >= maxsize

\* q.empty(): nothing to read in the pipe.  Objects still in a producer's
\* buffer do not count.
QEmpty == pipe = <<>>

\* ------------------------------------------------------------------ Init
InitRest(producers) ==
    /\ pc = "idle"
    /\ ai = 0
    /\ buffer = [p \in producers |-> <<>>]
    /\ pipe = <<>>
    /\ pushed = <<>>
    /\ applied = <<>>
    /\ surf = [n \in 1..Len(animators) |-> NoSurface]
    /\ drainStart = 0

\* AwesomeAnimator([ani, ani2], interval) as in the __main__ block.
Init == animators \in MainAnimators /\ InitRest(Producers)

\* AwesomeAnimator([ani, ani2], interval) with two plots in each animator,
\* one producer process.
InitGrid == animators \in GridAnimators /\ InitRest({"p1"})

\* AwesomeAnimator([ani], interval), one producer process.
InitStream == animators \in StreamAnimators /\ InitRest({"p1"})

\* AwesomeAnimator([a], interval) for every animator a, one producer process.
InitCfg == animators \in {<<a>> : a \in AllAnimators} /\ InitRest({"p1"})

\* --------------------------------------------------------------- actions
\* push putting its message at the front of the buffer.
PushFront(p, m) ==
    /\ Len(pushed) < MaxPush
    /\ ~Full
    /\ buffer' = [buffer EXCEPT ![p] = <<m>> \o @]
    /\ pushed' = Append(pushed, m)
    /\ UNCHANGED <<animators, pc, ai, pipe, applied, surf, drainStart>>

\* push(animator_index, plot_index, data) by producer p: build the Msg and
\* put it; put appends to the buffer of p's process and returns.
Push(p, m) ==
    /\ Len(pushed) < MaxPush
    /\ ~Full
    /\ buffer' = [buffer EXCEPT ![p] = Append(@, m)]
    /\ pushed' = Append(pushed, m)
    /\ UNCHANGED <<animators, pc, ai, pipe, applied, surf, drainStart>>

\* The feeder thread of p's process writes the oldest buffered object into
\* the pipe.
Feed(p) ==
    /\ buffer[p] # <<>>
    /\ pipe' = Append(pipe, Head(buffer[p]))
    /\ buffer' = [buffer EXCEPT ![p] = Tail(@)]
    /\ UNCHANGED <<animators, pc, ai, pushed, applied, surf, drainStart>>

\* start(): the animator process begins run().
Start ==
    /\ pc = "idle"
    /\ pc' = "init"
    /\ ai' = 0
    /\ UNCHANGED <<animators, buffer, pipe, pushed, applied, surf, drainStart>>

\* run() entering its loop as soon as the first animator is initialised.
InitStepEarlyLoop ==
    /\ pc = "init"
    /\ ai < NumAnimators
    /\ LET r == init_animation(animators[ai + 1], surf[ai + 1])
       IN  /\ surf' = [surf EXCEPT ![ai + 1] = r.s]
           /\ IF ~r.ok THEN pc' = "crashed" /\ UNCHANGED <<ai, drainStart>>
              ELSE pc' = "drain" /\ ai' = 0 /\ drainStart' = Len(pushed)
    /\ UNCHANGED <<animators, buffer, pipe, pushed, applied>>

\* One iteration of "for animator in self.animators: init_animation()";
\* after the last one the while True loop is entered at its drain.
InitStep ==
    /\ pc = "init"
    /\ ai < NumAnimators
    /\ LET r == init_animation(animators[ai + 1], surf[ai + 1])
       IN  /\ surf' = [surf EXCEPT ![ai + 1] = r.s]
           /\ IF ~r.ok THEN pc' = "crashed" /\ UNCHANGED <<ai, drainStart>>
              ELSE IF ai + 1 < NumAnimators
                   THEN pc' = "init" /\ ai' = ai + 1 /\ UNCHANGED drainStart
              ELSE pc' = "drain" /\ ai' = 0 /\ drainStart' = Len(pushed)
    /\ UNCHANGED <<animators, buffer, pipe, pushed, applied>>

\* One iteration of "while not self.q.empty()": get the message at the head
\* of the pipe and dispatch it to its animator's update.
DrainStep ==
    /\ pc = "drain"
    /\ ~QEmpty
    /\ LET msg == Head(pipe)
           n == msg.animator_index + 1
           r == update(animators[n], surf[n], msg.plot_index, msg.data)
       IN  /\ pipe' = Tail(pipe)
           /\ applied' = Append(applied, msg)
           /\ surf' = [surf EXCEPT ![n] = r.s]
           /\ pc' = IF r.ok THEN "drain" ELSE "crashed"
    /\ UNCHANGED <<animators, ai, buffer, pushed, drainStart>>

\* The loop that follows the drain when the queue is empty.
AfterDrainExit == "done"

\* Where run() goes when q.empty() holds: on to the draw loop.
AfterDrain == "flush"

\* q.empty() holds: the inner while ends.
DrainDone ==
    /\ pc = "drain"
    /\ QEmpty
    /\ pc' = AfterDrain
    /\ ai' = 0
    /\ UNCHANGED <<animators, buffer, pipe, pushed, applied, surf, drainStart>>

\* The draw loop ending after the first figure.
FlushStepFirstOnly ==
    /\ pc = "flush"
    /\ ai < NumAnimators
    /\ pc' = "pause"
    /\ ai' = 0
    /\ UNCHANGED <<animators, buffer, pipe, pushed, applied, surf, drainStart>>

\* One iteration of "for animator in self.animators: fig.canvas.draw()".
FlushStep ==
    /\ pc = "flush"
    /\ ai < NumAnimators
    /\ IF ai + 1 < NumAnimators THEN pc' = "flush" /\ ai' = ai + 1
       ELSE pc' = "pause" /\ ai' = 0
    /\ UNCHANGED <<animators, buffer, pipe, pushed, applied, surf, drainStart>>

\* plt.pause(.0001)
Pause ==
    /\ pc = "pause"
    /\ pc' = "sleep"
    /\ UNCHANGED <<animators, ai, buffer, pipe, pushed, applied, surf, drainStart>>

\* time.sleep(self.interval), then the next cycle of while True.
Sleep ==
    /\ pc = "sleep"
    /\ pc' = "drain"
    /\ drainStart' = Len(pushed)
    /\ UNCHANGED <<animators, ai, buffer, pipe, pushed, applied, surf>>

Next ==
    \/ \E p \in DOMAIN buffer, m \in ValidMsgs : Push(p, m)
    \/ \E p \in DOMAIN buffer : Feed(p)
    \/ Start
    \/ InitStep
    \/ DrainStep
    \/ DrainDone
    \/ FlushStep
    \/ Pause
    \/ Sleep

Spec == Init /\ [][Next]_vars

SpecCfg == InitCfg /\ [][Next]_vars

\* ---------------------------------------------- producers that never stop
\* The same program with the two histories (pushed, applied) left empty, so
\* that a producer can go on pushing for ever; what is bounded is the number
\* of messages in the queue at one time.

\* Messages put and not yet got: in the producers' buffers or in the pipe.
RECURSIVE Buffered(_)
Buffered(ps) ==
    IF ps = {} THEN 0
    ELSE LET p == CHOOSE q \in ps : TRUE IN Len(buffer[p]) + Buffered(ps \ {p})

InFlight == Len(pipe) + Buffered(DOMAIN buffer)

\* push by producer p, not recorded in the history.
PushStream(p, m) ==
    /\ InFlight < MaxInFlight
    /\ ~Full
    /\ buffer' = [buffer EXCEPT ![p] = Append(@, m)]
    /\ UNCHANGED <<animators, pc, ai, pipe, pushed, applied, surf, drainStart>>

\* One iteration of "while not self.q.empty()", not recorded in the history.
DrainStepStream ==
    /\ pc = "drain"
    /\ ~QEmpty
    /\ LET msg == Head(pipe)
           n == msg.animator_index + 1
           r == update(animators[n], surf[n], msg.plot_index, msg.data)
       IN  /\ pipe' = Tail(pipe)
           /\ surf' = [surf EXCEPT ![n] = r.s]
           /\ pc' = IF r.ok THEN "drain" ELSE "crashed"
    /\ UNCHANGED <<animators, ai, buffer, pushed, applied, drainStart>>

\* The steps of the animator process.
RendererStream ==
    \/ Start
    \/ InitStep
    \/ DrainStepStream
    \/ DrainDone
    \/ FlushStep
    \/ Pause
    \/ Sleep

NextStream ==
    \/ \E p \in DOMAIN buffer, m \in ValidMsgs : PushStream(p, m)
    \/ \E p \in DOMAIN buffer : Feed(p)
    \/ RendererStream

\* The animator process, once started, and every feeder thread keep being
\* scheduled; nothing is assumed of the producers.
SpecStream ==
    /\ InitStream
    /\ [][NextStream]_vars
    /\ WF_vars(RendererStream)
    /\ \A p \in {"p1"} : WF_vars(Feed(p))

SpecGrid == InitGrid /\ [][Next]_vars

\* One plot animator of one plot and one producer, with the histories.
SpecPlot == InitStream /\ [][Next]_vars

\* ------------------------------------------------- vocabulary of the claims
\* s is a prefix of t.
IsPrefix(s, t) == Len(s) <= Len(t) /\ SubSeq(t, 1, Len(s)) = s

\* Number of occurrences of x in s.
Count(s, x) == Cardinality({k \in 1..Len(s) : s[k] = x})

\* The last n elements of s.
LastN(s, n) == SubSeq(s, Len(s) - n + 1, Len(s))

\* The payloads dispatched so far to plot i of the animator at position n of
\* the list (animator_index n - 1), in dispatch order.
RECURSIVE PayloadsOf(_, _, _)
PayloadsOf(log, n, i) ==
    IF log = <<>> THEN <<>>
    ELSE LET m == log[Len(log)]
             before == PayloadsOf(SubSeq(log, 1, Len(log) - 1), n, i)
         IN  IF m.animator_index = n - 1 /\ m.plot_index = i
             THEN Append(before, m.data) ELSE before

RECURSIVE Vals(_)
Vals(ds) == IF ds = <<>> THEN <<>> ELSE <<ds[1].val>> \o Vals(Tail(ds))

PlotIdx == {n \in 1..NumAnimators : animators[n].kind = "plot"}
ImageIdx == {n \in 1..NumAnimators : animators[n].kind = "image"}
Slots(n) == 0..(NumPlots(animators[n]) - 1)

\* Lifecycle state of the renderer.
Phase(c) ==
    CASE c = "idle" -> "Idle"
      [] c = "init" -> "Initializing"
      [] c \in {"drain", "flush", "pause", "sleep"} -> "Looping"
      [] c = "crashed" -> "Error"
      [] OTHER -> "Exited"

\* Drawable handles of plot i: its axis, and its line or its images.
Handles(a, s, i) ==
    1 + (IF a.kind = "plot" THEN (IF i + 1 <= s.lines THEN 1 ELSE 0)
         ELSE Len(s.images[i + 1]))

\* ------------------------------------------------------------------ claims

\* C1: the sequence of messages dispatched to update is at every moment a
\* prefix of the sequence of push calls in their completion order.
GlobalFifo == IsPrefix(applied, pushed)

\* C2: the buffer of every plot of an initialised PlotAnimator has length
\* max_history and holds the last max_history elements of max_history zeros
\* followed by the values dispatched to that plot, in dispatch order.
RollingBuffer ==
    \A n \in PlotIdx : surf[n].inited = 1 =>
        \A i \in Slots(n) :
            LET N == animators[n].max_history
                vs == Vals(PayloadsOf(applied, n, i))
            IN  /\ Len(surf[n].data[i + 1]) = N
                /\ surf[n].data[i + 1] = LastN(npzeros(N) \o vs, N)

\* A plot with a history of at least 2 has received more values than it
\* holds, the evicted one different from the one after it.
RollingBufferWitness ==
    \E n \in PlotIdx : \E i \in Slots(n) :
        LET vs == Vals(PayloadsOf(applied, n, i))
        IN  /\ animators[n].max_history >= 2
            /\ Len(vs) > animators[n].max_history
            /\ vs[1] # vs[2]

\* C3: once update has been applied to a plot, its display range contains
\* every value of its buffer, its lower bound is not above its upper bound,
\* and update has not raised.
RangeContainment ==
    /\ pc # "crashed"
    /\ \A n \in PlotIdx : \A i \in Slots(n) :
        PayloadsOf(applied, n, i) # <<>> =>
            LET buf == surf[n].data[i + 1]
                yl == surf[n].ylim[i + 1]
            IN  /\ Len(yl) = 2
                /\ yl[1] <= yl[2]
                /\ \A k \in 1..Len(buf) : yl[1] <= 10 * buf[k] /\ 10 * buf[k] <= yl[2]

\* update has rescaled a plot whose buffer values are all equal.
RangeContainmentWitness ==
    \E n \in PlotIdx : \E i \in Slots(n) :
        /\ PayloadsOf(applied, n, i) # <<>>
        /\ npmin(surf[n].data[i + 1]) = npmax(surf[n].data[i + 1])
        /\ surf[n].ylim[i + 1] = <<10 * npmin(surf[n].data[i + 1]),
                                   10 * npmin(surf[n].data[i + 1])>>

\* C4: once update has been applied to an image plot, the plot shows the
\* last array dispatched to it and nothing else.
ReplaceNotAccumulate ==
    \A n \in ImageIdx : \A i \in Slots(n) :
        LET ds == PayloadsOf(applied, n, i)
        IN  ds # <<>> => surf[n].images[i + 1] = <<ds[Len(ds)]>>

\* C5: every producer can complete a push of every valid message in every
\* state, whatever the renderer is doing and however long the queue is (up
\* to the bound on the number of push calls).
NonBlockingPush ==
    Len(pushed) < MaxPush =>
        \A p \in DOMAIN buffer : \A m \in ValidMsgs : ENABLED Push(p, m)

\* Two push calls have completed while the renderer has not been started.
NonBlockingPushWitness == pc = "idle" /\ Len(pushed) >= 2 /\ applied = <<>>

\* C6: init_animation is called at most once on every animator, on all of
\* them exactly once before the loop is entered, and no message is
\* dispatched to update before that.
InitBeforeUpdate ==
    /\ \A n \in 1..NumAnimators : surf[n].inited <= 1
    /\ pc = "idle" => \A n \in 1..NumAnimators : surf[n].inited = 0
    /\ Phase(pc) = "Looping" => \A n \in 1..NumAnimators : surf[n].inited = 1
    /\ applied # <<>> => \A n \in 1..NumAnimators : surf[n].inited = 1

\* A message is readable in the pipe while the first animator is initialised
\* and the second is not; nothing has been dispatched.
InitBeforeUpdateWitness ==
    /\ pc = "init"
    /\ NumAnimators >= 2
    /\ surf[1].inited = 1
    /\ surf[2].inited = 0
    /\ pipe # <<>>
    /\ applied = <<>>

\* C7: the renderer's state only moves Idle -> Initializing -> Looping, and
\* from Looping only to Looping.
LifecycleStep ==
    \/ Phase(pc) = "Idle" /\ Phase(pc') \in {"Idle", "Initializing"}
    \/ Phase(pc) = "Initializing" /\ Phase(pc') \in {"Initializing", "Looping"}
    \/ Phase(pc) = "Looping" /\ Phase(pc') = "Looping"

NoHandleAllocation ==
    \A n \in 1..NumAnimators : surf[n].inited = 1 =>
        \A i \in Slots(n) :
            Handles(animators[n], surf[n], i)
                = Handles(animators[n], init_animation(animators[n], NoSurface).s, i)

\* The animator has its nrows*ncols plots: a flat axes sequence of that
\* length and a line and a buffer, or a shown image, for each.
SlotsAllocated(a, s) ==
    /\ s.axes = [ndim |-> 1, len |-> a.nrows * a.ncols]
    /\ a.kind = "plot" => s.lines = a.nrows * a.ncols /\ Len(s.data) = a.nrows * a.ncols
    /\ a.kind = "image" => /\ DOMAIN s.images = 1..(a.nrows * a.ncols)
                           /\ \A j \in DOMAIN s.images : s.images[j] # <<>>

\* C9 as stated: for every animator, whatever its max_history, neither
\* init_animation nor an in-range update raises, and an initialised animator
\* has its nrows*ncols plots.
InRangeNeverFails ==
    /\ pc # "crashed"
    /\ \A n \in 1..NumAnimators :
        surf[n].inited = 1 => SlotsAllocated(animators[n], surf[n])

\* C9 amended: the same for every animator that is not a PlotAnimator with
\* max_history below 1.
InRangeNeverFailsFromOne ==
    (\A n \in PlotIdx : animators[n].max_history >= 1) =>
        /\ pc # "crashed"
        /\ \A n \in 1..NumAnimators :
            surf[n].inited = 1 => SlotsAllocated(animators[n], surf[n])

\* An animator whose grid has exactly one dimension equal to 1 has had an
\* update applied to its last plot.
InRangeNeverFailsWitness ==
    /\ pc # "crashed"
    /\ \E n \in 1..NumAnimators :
        /\ (animators[n].nrows = 1) # (animators[n].ncols = 1)
        /\ PayloadsOf(applied, n, NumPlots(animators[n]) - 1) # <<>>

\* C10: when a cycle's drain has ended, every message whose push completed
\* before that drain began has been dispatched.
CompleteDrain ==
    pc = "flush" =>
        \A k \in 1..drainStart :
            Count(SubSeq(pushed, 1, drainStart), pushed[k]) <= Count(applied, pushed[k])


\* C11: every cycle is the drain, then one draw per animator in list order,
\* then the pause, then the sleep, then the next drain; a message is
\* dispatched only by a step that starts and ends in the drain; the drain
\* is left only for the draw of the first animator, whether or not it has
\* dispatched anything.
CycleStep ==
    /\ pc = "drain" => \/ pc' = "drain" /\ ai' = ai
                       \/ pc' = "flush" /\ ai' = 0 /\ applied' = applied
    /\ pc = "flush" => \/ pc' = "flush" /\ ai' = ai
                       \/ pc' = "flush" /\ ai' = ai + 1 /\ ai' < NumAnimators
                       \/ pc' = "pause" /\ ai + 1 = NumAnimators
    /\ pc = "pause" => pc' \in {"pause", "sleep"}
    /\ pc = "sleep" => pc' \in {"sleep", "drain"}
    /\ applied' # applied => pc = "drain" /\ pc' = "drain"

CycleOrder == [][CycleStep]_vars

\* Every figure has been drawn in a cycle whose drain found the queue empty:
\* no push has completed yet.
CycleOrderWitness == pc = "pause" /\ pushed = <<>> /\ NumAnimators >= 2


\* C12: a step that dispatches a message (n - 1, i, payload) leaves the
\* list of animators as it is, leaves every other animator's state as it
\* is, and in animator n changes at most the buffer and the display range,
\* or the images, of plot i.
SingleSlotStep ==
    applied' # applied =>
        LET msg == applied'[Len(applied')]
            n == msg.animator_index + 1
            i == msg.plot_index + 1
        IN  /\ animators' = animators
            /\ DOMAIN surf' = DOMAIN surf
            /\ \A k \in DOMAIN surf : k # n => surf'[k] = surf[k]
            /\ surf'[n].inited = surf[n].inited
            /\ surf'[n].axes = surf[n].axes
            /\ surf'[n].lines = surf[n].lines
            /\ DOMAIN surf'[n].data = DOMAIN surf[n].data
            /\ DOMAIN surf'[n].ylim = DOMAIN surf[n].ylim
            /\ DOMAIN surf'[n].images = DOMAIN surf[n].images
            /\ \A j \in DOMAIN surf[n].data : j # i => surf'[n].data[j] = surf[n].data[j]
            /\ \A j \in DOMAIN surf[n].ylim : j # i => surf'[n].ylim[j] = surf[n].ylim[j]
            /\ \A j \in DOMAIN surf[n].images :
                   j # i => surf'[n].images[j] = surf[n].images[j]

SingleSlotEffect == [][SingleSlotStep]_vars

\* Messages have been dispatched to both plots of the plot animator and to
\* a plot of the image animator.
SingleSlotEffectWitness ==
    /\ \E n \in PlotIdx : /\ NumPlots(animators[n]) >= 2
                          /\ PayloadsOf(applied, n, 0) # <<>>
                          /\ PayloadsOf(applied, n, 1) # <<>>
    /\ \E n \in ImageIdx : /\ NumPlots(animators[n]) >= 2
                           /\ \E i \in Slots(n) : PayloadsOf(applied, n, i) # <<>>


\* C13: a step in which a push completes appends that one message to the
\* tail of the calling process's queue buffer and changes nothing else of
\* the program: not the pipe, the animators, their state, the dispatch
\* history or the renderer's position; and a step that changes an
\* animator's state or the renderer's position is no push and leaves the
\* producers' buffers alone.
ProducerStep ==
    /\ pushed' # pushed =>
        /\ Len(pushed') = Len(pushed) + 1
        /\ SubSeq(pushed', 1, Len(pushed)) = pushed
        /\ pushed'[Len(pushed')] \in ValidMsgs
        /\ \E p \in DOMAIN buffer :
               buffer' = [buffer EXCEPT ![p] = Append(@, pushed'[Len(pushed')])]
        /\ pipe' = pipe
        /\ animators' = animators
        /\ surf' = surf
        /\ applied' = applied
        /\ pc' = pc
        /\ ai' = ai
    /\ (surf' # surf \/ pc' # pc \/ ai' # ai) => pushed' = pushed /\ buffer' = buffer

SoleMutator == [][ProducerStep]_vars

\* A push has completed after the current drain began, with a message
\* already dispatched and another still in a producer's buffer.
SoleMutatorWitness ==
    /\ pc = "drain"
    /\ applied # <<>>
    /\ drainStart < Len(pushed)
    /\ \E p \in DOMAIN buffer : Len(buffer[p]) >= 2

\* Minimum and maximum of the values of a non-empty sequence.
MinOf(s) == CHOOSE x \in {s[k] : k \in 1..Len(s)} : \A k \in 1..Len(s) : x <= s[k]
MaxOf(s) == CHOOSE x \in {s[k] : k \in 1..Len(s)} : \A k \in 1..Len(s) : x >= s[k]

\* C14: once update has been applied to a plot, its display range in tenths
\* is <<10*min - (max - min), 10*max + (max - min)>>, min and max taken over
\* the last max_history of the zeros followed by the values dispatched to
\* the plot: the values the buffer holds now, not the evicted ones.
RangeFormula ==
    \A n \in PlotIdx : \A i \in Slots(n) :
        LET N == animators[n].max_history
            vs == Vals(PayloadsOf(applied, n, i))
            cur == LastN(npzeros(N) \o vs, N)
        IN  vs # <<>> =>
                surf[n].ylim[i + 1] =
                    <<10 * MinOf(cur) - Abs(MaxOf(cur) - MinOf(cur)),
                      10 * MaxOf(cur) + Abs(MaxOf(cur) - MinOf(cur))>>

\* A plot that has evicted a dispatched value which lies outside the values
\* it holds now.
RangeFormulaWitness ==
    \E n \in PlotIdx : \E i \in Slots(n) :
        LET N == animators[n].max_history
            vs == Vals(PayloadsOf(applied, n, i))
            all == npzeros(N) \o vs
            cur == LastN(all, N)
        IN  /\ Len(vs) > N
            /\ \/ all[Len(all) - N] < MinOf(cur)
               \/ all[Len(all) - N] > MaxOf(cur)


\* C15: once a cycle's drain has begun, the draw loop of that cycle is
\* eventually reached, whatever the producers do.
DrainTerminates == (pc = "drain") ~> (pc = "flush")

\* C16, in what it says of the draw: whenever a message is in the queue,
\* every figure is eventually drawn (a message put is dispatched and then
\* drawn).
EventualDelivery == (InFlight > 0) ~> (pc = "pause")

====
